---------------------------- MODULE Spec2Model ----------------------------
(***************************************************************************)
(* The authentication layer of ee-app: the token store and HTTP client     *)
(* wrapper (src/unnamed/part_001, the api-client module that               *)
(* src/lib/auth.ts imports), the auth service (src/lib/auth.ts) and the    *)
(* session context (src/contexts/auth-context.tsx).                        *)
(*                                                                         *)
(* Execution model: a browser event loop.  Every operation runs without    *)
(* interruption from its call, or from the arrival of the response it      *)
(* awaits, up to its next network dispatch or its completion; one action   *)
(* of this module is one such run.  Between fetch() settling and the body  *)
(* being parsed the code touches no shared state, so the two are one step. *)
(*                                                                         *)
(* Strings that the code concatenates are sequences of pieces, so that     *)
(* `a + b` is a \o b and the empty string (falsy in JavaScript) is << >>.  *)
(***************************************************************************)
EXTENDS Integers, Sequences, FiniteSets, Bags, TLC

(***************************************************************************)
(* Bounds of the model.                                                    *)
(***************************************************************************)
\* number of operations that may be in flight (suspended at an await) at once
MaxCalls == 2

\* number of operations that may be in flight at once in a session
MaxSessionCalls == 1
\* number of operations that may be in flight at once in a session of concurrent
\* logins
MaxLogins == 2

(***************************************************************************)
(* Values.                                                                 *)
(***************************************************************************)
\* localStorage.getItem of a missing key; also a missing / empty token field
Null == "null"
\* a property that is not there (JavaScript undefined)
Undefined == "undefined"

AccessTokens == {"T1", "T2"}
RefreshTokens == {"R1", "R2"}

\* LoginCredentials / RegisterCredentials (src/lib/auth.ts:39-49)
Credentials ==
    { [email |-> "a@b.com", password |-> "x", first_name |-> "Ann", last_name |-> Undefined],
      [email |-> "c@d.com", password |-> "y", first_name |-> Undefined, last_name |-> Undefined] }

\* DirectusUserResponse.data (src/lib/auth.ts:19-28): user records the CMS may answer with
CmsUsers ==
    { [id |-> "1", email |-> "a@b.com", first_name |-> "Ann", last_name |-> Undefined,
       role |-> "admin", status |-> "active"],
      [id |-> "2", email |-> "c@d.com", first_name |-> Undefined, last_name |-> Undefined,
       role |-> Undefined, status |-> Undefined] }

NoCmsUser ==
    [id |-> Null, email |-> Null, first_name |-> Null, last_name |-> Null,
     role |-> Null, status |-> Null]

\* AuthUser | null (src/lib/auth.ts:51-58); NoUser is null
NoUser ==
    [id |-> Null, email |-> Null, firstName |-> Null, lastName |-> Null,
     role |-> Null, status |-> Null]

\* the object literal login, register and getCurrentUser build from a CMS user record
ToAuthUser(d) ==
    [id |-> d.id, email |-> d.email, firstName |-> d.first_name, lastName |-> d.last_name,
     role |-> d.role, status |-> d.status]

(***************************************************************************)
(* Configuration: process.env, fixed for the lifetime of a build.          *)
(***************************************************************************)
Envs ==
    { [NEXT_PUBLIC_DIRECTUS_URL |-> TRUE,  NEXT_PUBLIC_API_BASE_URL |-> FALSE],
      [NEXT_PUBLIC_DIRECTUS_URL |-> FALSE, NEXT_PUBLIC_API_BASE_URL |-> TRUE],
      [NEXT_PUBLIC_DIRECTUS_URL |-> FALSE, NEXT_PUBLIC_API_BASE_URL |-> FALSE] }

\* the auth service and the context run in the browser only ("use client" callbacks
\* and effects), where `typeof window !== 'undefined'`
WindowDefined == TRUE

(***************************************************************************)
(* Token Store (src/unnamed/part_001:56-69, 199-267).                      *)
(*                                                                         *)
(* localStorage maps the two fixed keys to a token or to Null.  setItem    *)
(* either stores the value or throws (QuotaExceededError); the setters     *)
(* catch and log, so a refused write leaves the store as it was.  Whether  *)
(* a write is accepted is the environment's choice, the `accepted`         *)
(* argument.  getItem and removeItem throw only when the whole storage is  *)
(* inaccessible; then every setItem throws too and every getter answers    *)
(* Null, which is the behaviour of an empty store that accepts no write.   *)
(***************************************************************************)
ACCESS_KEY == "directus_access_token"
REFRESH_KEY == "directus_refresh_token"

EmptyStorage == [k \in {ACCESS_KEY, REFRESH_KEY} |-> Null]

getStoredAuthToken(ls) == IF ~WindowDefined THEN Null ELSE ls[ACCESS_KEY]

getAuthToken(ls) == IF ~WindowDefined THEN Null ELSE ls[ACCESS_KEY]

getRefreshToken(ls) == IF ~WindowDefined THEN Null ELSE ls[REFRESH_KEY]

setAuthToken(ls, token, accepted) ==
    IF WindowDefined /\ accepted THEN [ls EXCEPT ![ACCESS_KEY] = token] ELSE ls

\* setRefreshToken writing under the access token's key
setRefreshTokenUnderAccessKey(ls, token, accepted) ==
    IF WindowDefined /\ accepted THEN [ls EXCEPT ![ACCESS_KEY] = token] ELSE ls

setRefreshToken(ls, token, accepted) ==
    IF WindowDefined /\ accepted THEN [ls EXCEPT ![REFRESH_KEY] = token] ELSE ls

\* clearAuthTokens removing the access token alone
clearAccessTokenOnly(ls) ==
    IF WindowDefined THEN [ls EXCEPT ![ACCESS_KEY] = Null] ELSE ls

clearAuthTokens(ls) ==
    IF WindowDefined THEN [ls EXCEPT ![ACCESS_KEY] = Null, ![REFRESH_KEY] = Null] ELSE ls

(***************************************************************************)
(* Errors, request and response values.                                    *)
(***************************************************************************)
\* a parsed body.  parse: "object" (a JSON object), "text" (not JSON), "invalid"
\* (declared JSON, does not parse); errors = << >> when absent or empty;
\* message = << >> when absent or empty
NoBody ==
    [parse |-> "text", hasData |-> FALSE, access_token |-> Null, refresh_token |-> Null,
     user |-> NoCmsUser, errors |-> << >>, message |-> << >>]

\* a JavaScript Error object; hasStatus: the object has a `status` property
NoError ==
    [name |-> Null, message |-> << >>, hasStatus |-> FALSE, status |-> 0,
     statusText |-> << >>, data |-> NoBody]

NewError(message) == [NoError EXCEPT !.name = "Error", !.message = message]

\* the outcome of evaluating an expression or awaiting a promise
Value(v) == [threw |-> FALSE, err |-> NoError, val |-> v]
Throw(e) == [threw |-> TRUE, err |-> e, val |-> NoBody]

\* the JSON body of a request; Undefined fields are dropped by JSON.stringify
NoRequestBody ==
    [email |-> Undefined, password |-> Undefined, first_name |-> Undefined,
     last_name |-> Undefined, refresh_token |-> Undefined]

NoRequest ==
    [url |-> << >>, method |-> Null, Authorization |-> << >>, ContentType |-> Null,
     body |-> NoRequestBody]

NoResponse ==
    [kind |-> Null, status |-> 0, statusText |-> << >>, ctype |-> Null, body |-> NoBody]

\* response.ok
Ok(response) == response.status >= 200 /\ response.status <= 299

(***************************************************************************)
(* HTTP Client Wrapper (src/unnamed/part_001:31-54, 71-197).               *)
(***************************************************************************)
\* getApiBaseUrl: NEXT_PUBLIC_DIRECTUS_URL, else the legacy NEXT_PUBLIC_API_BASE_URL
getApiBaseUrl(e) ==
    IF e.NEXT_PUBLIC_DIRECTUS_URL THEN Value("NEXT_PUBLIC_DIRECTUS_URL")
    ELSE IF e.NEXT_PUBLIC_API_BASE_URL THEN Value("NEXT_PUBLIC_API_BASE_URL")
    ELSE Throw(NewError(<<"NEXT_PUBLIC_DIRECTUS_URL is not set.">>))

\* getDefaultHeaders building the header from the refresh token
getDefaultHeadersFromRefreshToken(ls) ==
    LET token == getRefreshToken(ls) IN
    [ContentType |-> "application/json",
     Authorization |-> IF token # Null THEN <<"Bearer ", token>> ELSE << >>]

\* getDefaultHeaders (part_001:74-91); the X-API-Key header is left out
getDefaultHeaders(ls) ==
    LET token == getStoredAuthToken(ls) IN
    [ContentType |-> "application/json",
     Authorization |-> IF token # Null THEN <<"Bearer ", token>> ELSE << >>]

buildUrl(e, endpoint) ==
    LET baseUrl == getApiBaseUrl(e) IN
    IF baseUrl.threw THEN baseUrl ELSE Value(<<baseUrl.val, endpoint>>)

\* handleResponse: a non-2xx response whose body parses as JSON becomes an Error
\* object carrying status, statusText and data.  When response.json() fails it has
\* consumed the body, so the `response.text()` of the inner catch rejects with a
\* TypeError (the body is already read), and that is what handleResponse throws.
\* A 2xx response is parsed as JSON when it declares a JSON content type, else
\* returned as text
handleResponse(response) ==
    IF ~Ok(response)
    THEN IF response.body.parse = "object"
         THEN Throw([name |-> "Error",
                     message |-> <<"API Error: ">> \o response.statusText,
                     hasStatus |-> TRUE,
                     status |-> response.status,
                     statusText |-> response.statusText,
                     data |-> response.body])
         ELSE Throw([NoError EXCEPT !.name = "TypeError",
                                    !.message = <<"body stream already read">>])
    ELSE IF response.ctype = "application/json"
         THEN IF response.body.parse = "object" THEN Value(response.body)
              ELSE Throw([NoError EXCEPT !.name = "SyntaxError",
                                         !.message = <<"Unexpected token">>])
         ELSE Value([NoBody EXCEPT !.parse = "text"])

\* apiClient up to `await fetch(url, config)`: the request it dispatches, or the
\* error thrown by buildUrl before anything is dispatched
apiClientDispatch(e, ls, endpoint, method, body) ==
    LET url == buildUrl(e, endpoint) IN
    IF url.threw THEN [threw |-> TRUE, err |-> url.err, req |-> NoRequest]
    ELSE [threw |-> FALSE, err |-> NoError,
          req |-> [url |-> url.val, method |-> method,
                   Authorization |-> getDefaultHeaders(ls).Authorization,
                   ContentType |-> getDefaultHeaders(ls).ContentType,
                   body |-> body]]

\* apiClient from the settling of fetch: a rejected fetch is wrapped into a plain
\* Error (no status); a response goes through handleResponse, whose promise is
\* returned without being awaited, so what it throws passes unchanged
apiClientSettle(response) ==
    IF response.kind = "rejected"
    THEN Throw(NewError(<<"Network error: ", "Failed to fetch">>))
    ELSE handleResponse(response)

(***************************************************************************)
(* Auth Service (src/lib/auth.ts).                                         *)
(***************************************************************************)
\* What the name ApiError denotes when auth.ts runs.  The api-client module declares
\* ApiError as an interface (part_001:25-29) and exports it with `export type`
\* (part_001:270); both are erased when the module is compiled, so the module has
\* no run-time binding of that name.  auth.ts:6 imports it and auth.ts:64 and :275
\* use it as a value: the type checker rejects that (TS2693), and every build that
\* runs without type checking evaluates the name to undefined (or to an unbound
\* identifier), which `instanceof` cannot take as its right-hand side.
ApiError == Undefined

\* x instanceof C.  Everything thrown in this program is an Error object.
InstanceOf(x, C) ==
    IF C = Undefined
    THEN Throw([NoError EXCEPT !.name = "TypeError",
                               !.message = <<"Right-hand side of 'instanceof' is not callable">>])
    ELSE Value(C = "Error")

\* the status-based fallback of extractErrorMessage (auth.ts:79-96)
StatusMessage(error) ==
    IF error.status = 401 THEN <<"Invalid email or password">>
    ELSE IF error.status = 403 THEN <<"Access forbidden">>
    ELSE IF error.status = 404 THEN <<"Endpoint not found">>
    ELSE IF error.status = 422 THEN <<"Validation error. Please check your input.">>
    ELSE IF error.status = 500 THEN <<"Server error. Please try again later.">>
    ELSE IF error.statusText # << >> THEN error.statusText
    ELSE <<"An error occurred">>

\* extractErrorMessage(error): the message, or what its evaluation throws
extractErrorMessage(error) ==
    LET isApiError == InstanceOf(error, ApiError) IN
    IF isApiError.threw THEN isApiError
    ELSE IF isApiError.val
    THEN IF error.data.parse = "object" /\ Len(error.data.errors) > 0
         THEN Value(error.data.errors[1])
         ELSE IF error.data.parse = "object" /\ error.data.message # << >>
         THEN Value(error.data.message)
         ELSE Value(StatusMessage(error))
    ELSE IF InstanceOf(error, "Error").val THEN Value(error.message)
    ELSE Value(<<"An unexpected error occurred">>)

\* `const errorMessage = extractErrorMessage(error); throw new Error(errorMessage)`:
\* the error that leaves the catch block of login, register and refreshToken
Rethrow(error) ==
    LET errorMessage == extractErrorMessage(error) IN
    IF errorMessage.threw THEN errorMessage.err ELSE NewError(errorMessage.val)

\* the way a call of an auth-service function ends: kind is "pending" while it is
\* suspended, "none" when no function was called, "returned" (user: the AuthUser or null; token: the string returned by
\* refreshToken) or "threw" (err)
Pending == [kind |-> "pending", user |-> NoUser, token |-> Null, err |-> NoError]
NotCalled == [kind |-> "none", user |-> NoUser, token |-> Null, err |-> NoError]
Returned(u, t) == [kind |-> "returned", user |-> u, token |-> t, err |-> NoError]
Threw(e) == [kind |-> "threw", user |-> NoUser, token |-> Null, err |-> e]

isAuthenticated(ls) == getAuthToken(ls) # Null

(***************************************************************************)
(* What the CMS and the network may answer (the environment's inputs).     *)
(***************************************************************************)
ErrorStatuses == {400, 401, 403, 404, 422, 500}

StatusTextOf(status) ==
    CASE status = 200 -> <<"OK">>
      [] status = 400 -> <<"Bad Request">>
      [] status = 401 -> <<"Unauthorized">>
      [] status = 403 -> <<"Forbidden">>
      [] status = 404 -> <<"Not Found">>
      [] status = 422 -> <<"Unprocessable Entity">>
      [] status = 500 -> <<"Internal Server Error">>

\* bodies of non-2xx answers: a Directus errors array, a bare message field, both,
\* neither, and a body that is not JSON
ErrorBodies ==
    { [NoBody EXCEPT !.parse = "object", !.errors = << <<"Invalid credentials">> >>],
      [NoBody EXCEPT !.parse = "object",
                     !.errors = << <<"Invalid credentials">>, <<"Second error">> >>,
                     !.message = <<"Top-level message">>],
      [NoBody EXCEPT !.parse = "object", !.errors = << << >> >>],
      [NoBody EXCEPT !.parse = "object", !.message = <<"Top-level message">>],
      [NoBody EXCEPT !.parse = "object"],
      [NoBody EXCEPT !.parse = "text"] }

ErrorResponse(st, tx, b) ==
    [kind |-> "response", status |-> st, statusText |-> tx,
     ctype |-> "application/json", body |-> b]

\* the non-2xx answers tried: every status with an empty JSON object, every body
\* with 401 and with 500, and a status outside the table with the empty status text
\* of an HTTP/2 answer
ErrorResponses ==
    { ErrorResponse(st, StatusTextOf(st), [NoBody EXCEPT !.parse = "object"]) :
         st \in ErrorStatuses }
    \cup { ErrorResponse(st, StatusTextOf(st), b) : st \in {401, 500}, b \in ErrorBodies }
    \cup { ErrorResponse(400, << >>, [NoBody EXCEPT !.parse = "object"]) }

\* fetch() rejects: no connection, CORS, DNS
Rejected == [NoResponse EXCEPT !.kind = "rejected"]

OkResponse(b) ==
    [kind |-> "response", status |-> 200, statusText |-> StatusTextOf(200),
     ctype |-> "application/json", body |-> b]

\* 2xx answers that are not the JSON the caller expects: an object without `data`,
\* a body that is not declared JSON, a declared JSON body that does not parse
OddOkResponses ==
    { OkResponse([NoBody EXCEPT !.parse = "object"]),
      [OkResponse([NoBody EXCEPT !.parse = "text"]) EXCEPT !.ctype = "text/plain"],
      OkResponse([NoBody EXCEPT !.parse = "invalid"]) }

\* the token pairs the CMS issues, and pairs with a token missing or empty
TokenPairs ==
    { <<"T1", "R1">>, <<"T2", "R2">>, <<"T1", Null>>, <<Null, "R2">>, <<Null, Null>> }

\* 2xx answers of /auth/login and /auth/refresh: DirectusAuthResponse
TokenResponses ==
    { OkResponse([NoBody EXCEPT !.parse = "object", !.hasData = TRUE,
                                !.access_token = p[1], !.refresh_token = p[2]]) :
         p \in TokenPairs }

\* 2xx answers of /users/me and /users: DirectusUserResponse
UserResponses ==
    { OkResponse([NoBody EXCEPT !.parse = "object", !.hasData = TRUE, !.user = u]) :
         u \in CmsUsers }

\* the failures tried where only the kind of failure matters: a 401 and another
\* status, with two of the bodies, and a fetch that rejects
Failures ==
    { ErrorResponse(401, StatusTextOf(401),
                    [NoBody EXCEPT !.parse = "object",
                                   !.errors = << <<"Invalid credentials">> >>]),
      ErrorResponse(500, StatusTextOf(500), [NoBody EXCEPT !.parse = "text"]),
      Rejected }

\* the answers to the requests of login and register, whose failures are reported
\* by message, and to those of refreshToken and getCurrentUser
AuthAnswers == TokenResponses \cup OddOkResponses \cup ErrorResponses \cup {Rejected}
UserAnswers == UserResponses \cup OddOkResponses \cup ErrorResponses \cup {Rejected}
RefreshAnswers == TokenResponses \cup OddOkResponses \cup Failures
CurrentUserAnswers == UserResponses \cup OddOkResponses \cup Failures

\* the answers the session is tried with: two full token pairs and one without
\* access token, every user record, a 2xx answer without `data`, and the failures
SessionTokenAnswers ==
    { r \in TokenResponses :
         <<r.body.access_token, r.body.refresh_token>>
            \in {<<"T1", "R1">>, <<"T2", "R2">>, <<Null, "R2">>} }
    \cup Failures
SessionUserAnswers ==
    UserResponses \cup {OkResponse([NoBody EXCEPT !.parse = "object"])} \cup Failures

(***************************************************************************)
(* State.                                                                  *)
(***************************************************************************)
VARIABLES
    env,           \* process.env: which base URLs are configured
    localStorage,  \* the browser's persistent storage: the two token keys
    calls,         \* the bag of the operations in flight, each suspended at an await
    user,          \* AuthProvider state `user`
    loading,       \* AuthProvider state `loading`
    mounted,       \* whether AuthProvider's mount effect has run
    event          \* what the step just taken did: the run it made, the response
                   \* it consumed, the request it dispatched, how the call ended;
                   \* NoEvent once that has been observed

vars == <<env, localStorage, calls, user, loading, mounted, event>>

NoCredentials ==
    [email |-> Null, password |-> Null, first_name |-> Null, last_name |-> Null]

NoTokens == [access_token |-> Null, refresh_token |-> Null]

\* a suspended call is [op, ctx, pc, cred, created, got, saw, stale].  op: the
\* auth-service function; ctx: the context function that called it ("direct":
\* called from outside the context); pc: the await it is suspended at; cred,
\* created, got: its locals `credentials` (kept while the code still reads it,
\* and, where the history is kept, while login waits for the answer to them),
\* `createUserResponse.data` and the `data` of login's `response`; saw: the
\* context's user when its login or register was called, and stale: the context's
\* logout has run since the call was made (two history values, which the code
\* does not keep; stale is recorded in the sessions of concurrent logins).  NoCall stands for the call that is just being made.
NoCall ==
    [op |-> Null, ctx |-> Null, pc |-> "idle", cred |-> NoCredentials,
     created |-> NoCmsUser, got |-> NoTokens, saw |-> NoUser, stale |-> FALSE]

\* the label of a step: the auth-service function that ran (op), on behalf of which
\* context function (ctx), which of its runs (step), the response consumed (resp),
\* the request dispatched (req), how the call stands after it (out), the route
\* pushed (nav), the store before the step (before), whether the storage accepted
\* every write the step attempted (accepted), the tokens the call received from
\* /auth/login or /auth/refresh, in this step or in an earlier one (got), the
\* user record register received from /users (created), how the context
\* function's promise stands (result), the setters and router calls it made (did),
\* the context's user and loading before the step (was), the context's user
\* when the login or register that made the step was called (saw), and whether
\* the context's logout has run since the call that made the step began (stale)
NoEvent ==
    [op |-> Null, ctx |-> Null, step |-> "init", req |-> NoRequest,
     resp |-> NoResponse, out |-> Pending, nav |-> Null, before |-> EmptyStorage,
     accepted |-> TRUE, got |-> NoTokens, created |-> NoCmsUser,
     result |-> Null, did |-> << >>, was |-> [user |-> NoUser, loading |-> TRUE],
     saw |-> NoUser, stale |-> FALSE]

Init ==
    /\ env \in Envs
    /\ localStorage = EmptyStorage
    /\ calls = EmptyBag
    /\ user = NoUser
    /\ loading = TRUE
    /\ mounted = FALSE
    /\ event = NoEvent

Suspended == BagToSet(calls)

(***************************************************************************)
(* The runs of the auth-service functions.  Each operator is the code of   *)
(* one function between two suspension points: from the store `ls` and the *)
(* inputs it yields the store it leaves (ls), how the call stands (out),   *)
(* the request it dispatched (req) and the await it stops at (pc), with    *)
(* the locals it keeps.                                                    *)
(***************************************************************************)
Run(ls, out, req, pc) ==
    [ls |-> ls, out |-> out, req |-> req, pc |-> pc, created |-> NoCmsUser,
     accepted |-> TRUE, got |-> NoTokens]

TypeErrorUndefined ==
    [NoError EXCEPT !.name = "TypeError",
                    !.message = <<"Cannot read properties of undefined">>]

LoginBody(credentials) ==
    [NoRequestBody EXCEPT !.email = credentials.email,
                          !.password = credentials.password]

\* the `Store tokens` block without its second statement
StoreTokensWithoutRefreshToken(ls, body, okA, okR) ==
    IF body.hasData /\ body.access_token # Null
    THEN setAuthToken(ls, body.access_token, okA) ELSE ls

\* the `Store tokens` block shared by login, register and refreshToken:
\* `if (x.data?.access_token) setAuthToken(...)`, `if (x.data?.refresh_token) ...`
StoreTokens(ls, body, okA, okR) ==
    LET ls1 == IF body.hasData /\ body.access_token # Null
               THEN setAuthToken(ls, body.access_token, okA) ELSE ls
    IN IF body.hasData /\ body.refresh_token # Null
       THEN setRefreshToken(ls1, body.refresh_token, okR) ELSE ls1

TokensOf(body) ==
    IF body.hasData
    THEN [access_token |-> body.access_token, refresh_token |-> body.refresh_token]
    ELSE NoTokens

\* every setItem that StoreTokens attempted was accepted
Accepted(body, okA, okR) ==
    /\ (body.hasData /\ body.access_token # Null) => okA
    /\ (body.hasData /\ body.refresh_token # Null) => okR

\* logout (auth.ts:194-196)
authLogout(ls) == Run(clearAuthTokens(ls), Returned(NoUser, Null), NoRequest, "idle")

\* login, from the call to the dispatch of POST /auth/login (auth.ts:109-117)
authLoginCall(e, ls, credentials) ==
    LET d == apiClientDispatch(e, ls, "/auth/login", "POST", LoginBody(credentials)) IN
    IF d.threw THEN Run(ls, Threw(Rethrow(d.err)), NoRequest, "idle")
    ELSE Run(ls, Pending, d.req, "awaitLogin")

\* login dispatching GET /users/me before it stores the tokens
authLoginTokensStoringAfterDispatch(e, ls, response, okA, okR) ==
    LET r == apiClientSettle(response) IN
    IF r.threw THEN Run(ls, Threw(Rethrow(r.err)), NoRequest, "idle")
    ELSE LET ls2 == StoreTokens(ls, r.val, okA, okR)
             d == apiClientDispatch(e, ls, "/users/me", "GET", NoRequestBody)
         IN [(IF d.threw THEN Run(ls2, Threw(Rethrow(d.err)), NoRequest, "idle")
              ELSE Run(ls2, Pending, d.req, "awaitMe"))
                EXCEPT !.accepted = Accepted(r.val, okA, okR), !.got = TokensOf(r.val)]

\* login, from the answer of /auth/login to the dispatch of GET /users/me
\* (auth.ts:111-128)
authLoginTokens(e, ls, response, okA, okR) ==
    LET r == apiClientSettle(response) IN
    IF r.threw THEN Run(ls, Threw(Rethrow(r.err)), NoRequest, "idle")
    ELSE LET ls2 == StoreTokens(ls, r.val, okA, okR)
             d == apiClientDispatch(e, ls2, "/users/me", "GET", NoRequestBody)
         IN [(IF d.threw THEN Run(ls2, Threw(Rethrow(d.err)), NoRequest, "idle")
              ELSE Run(ls2, Pending, d.req, "awaitMe"))
                EXCEPT !.accepted = Accepted(r.val, okA, okR), !.got = TokensOf(r.val)]

\* login, from the answer of /users/me to its end (auth.ts:128-141); got: the
\* tokens of its login response
authLoginUser(ls, got, response) ==
    LET r == apiClientSettle(response) IN
    [(IF r.threw THEN Run(ls, Threw(Rethrow(r.err)), NoRequest, "idle")
      ELSE IF ~r.val.hasData
      THEN Run(ls, Threw(Rethrow(TypeErrorUndefined)), NoRequest, "idle")
      ELSE Run(ls, Returned(ToAuthUser(r.val.user), Null), NoRequest, "idle"))
        EXCEPT !.got = got]

\* register, from the call to the dispatch of POST /users (auth.ts:147-158)
authRegisterCall(e, ls, credentials) ==
    LET d == apiClientDispatch(e, ls, "/users", "POST",
                 [NoRequestBody EXCEPT !.email = credentials.email,
                                       !.password = credentials.password,
                                       !.first_name = credentials.first_name,
                                       !.last_name = credentials.last_name])
    IN IF d.threw THEN Run(ls, Threw(Rethrow(d.err)), NoRequest, "idle")
       ELSE Run(ls, Pending, d.req, "awaitCreate")

\* register going on to POST /auth/login whatever the answer of /users
authRegisterCreatedIgnoringFailure(e, ls, credentials, response) ==
    LET r == apiClientSettle(response)
        d == apiClientDispatch(e, ls, "/auth/login", "POST", LoginBody(credentials))
    IN IF d.threw THEN Run(ls, Threw(Rethrow(d.err)), NoRequest, "idle")
       ELSE [Run(ls, Pending, d.req, "awaitRegisterLogin")
                EXCEPT !.created = IF ~r.threw /\ r.val.hasData THEN r.val.user
                                   ELSE NoCmsUser]

\* register, from the answer of /users to the dispatch of POST /auth/login
\* (auth.ts:150-167); a 2xx answer without `data` is kept as NoCmsUser
authRegisterCreated(e, ls, credentials, response) ==
    LET r == apiClientSettle(response) IN
    IF r.threw THEN Run(ls, Threw(Rethrow(r.err)), NoRequest, "idle")
    ELSE LET d == apiClientDispatch(e, ls, "/auth/login", "POST", LoginBody(credentials)) IN
         IF d.threw THEN Run(ls, Threw(Rethrow(d.err)), NoRequest, "idle")
         ELSE [Run(ls, Pending, d.req, "awaitRegisterLogin")
                  EXCEPT !.created = IF r.val.hasData THEN r.val.user ELSE NoCmsUser]

\* register, from the answer of /auth/login to its end (auth.ts:161-188)
authRegisterTokens(ls, created, response, okA, okR) ==
    LET r == apiClientSettle(response) IN
    IF r.threw THEN Run(ls, Threw(Rethrow(r.err)), NoRequest, "idle")
    ELSE LET ls2 == StoreTokens(ls, r.val, okA, okR) IN
         [(IF created = NoCmsUser
           THEN Run(ls2, Threw(Rethrow(TypeErrorUndefined)), NoRequest, "idle")
           ELSE Run(ls2, Returned(ToAuthUser(created), Null), NoRequest, "idle"))
             EXCEPT !.accepted = Accepted(r.val, okA, okR), !.got = TokensOf(r.val),
                    !.created = created]

\* the catch block of refreshToken without its clearAuthTokens()
refreshTokenCatchKeepingTokens(ls, error) ==
    Run(ls, Threw(Rethrow(error)), NoRequest, "idle")

\* the catch block of refreshToken (auth.ts:244-249)
refreshTokenCatch(ls, error) ==
    Run(clearAuthTokens(ls), Threw(Rethrow(error)), NoRequest, "idle")

\* refreshToken testing the access token where the code tests the refresh token
refreshTokenCallTestingAccessToken(e, ls) ==
    IF getAuthToken(ls) = Null
    THEN Run(ls, Threw(NewError(<<"No refresh token available">>)), NoRequest, "idle")
    ELSE IF ~e.NEXT_PUBLIC_DIRECTUS_URL
    THEN refreshTokenCatch(ls, NewError(<<"Directus URL not configured">>))
    ELSE Run(ls, Pending,
             [url |-> <<"NEXT_PUBLIC_DIRECTUS_URL", "/auth/refresh">>, method |-> "POST",
              Authorization |-> << >>, ContentType |-> "application/json",
              body |-> [NoRequestBody EXCEPT !.refresh_token = getRefreshToken(ls)]],
             "awaitRefresh")

\* refreshToken, from the call to `await fetch` (auth.ts:201-227): the request is
\* built from NEXT_PUBLIC_DIRECTUS_URL alone and carries no Authorization header
refreshTokenCall(e, ls) ==
    LET refreshTokenValue == getRefreshToken(ls) IN
    IF refreshTokenValue = Null
    THEN Run(ls, Threw(NewError(<<"No refresh token available">>)), NoRequest, "idle")
    ELSE IF ~e.NEXT_PUBLIC_DIRECTUS_URL
    THEN refreshTokenCatch(ls, NewError(<<"Directus URL not configured">>))
    ELSE Run(ls, Pending,
             [url |-> <<"NEXT_PUBLIC_DIRECTUS_URL", "/auth/refresh">>, method |-> "POST",
              Authorization |-> << >>, ContentType |-> "application/json",
              body |-> [NoRequestBody EXCEPT !.refresh_token = refreshTokenValue]],
             "awaitRefresh")

\* refreshToken returning the refresh token where the code returns the access token
refreshTokenSettledReturningRefreshToken(ls, response, okA, okR) ==
    IF response.kind = "rejected" \/ ~Ok(response) \/ response.body.parse # "object"
       \/ ~response.body.hasData
    THEN refreshTokenCatch(ls, NewError(<<"Failed to refresh token">>))
    ELSE [Run(StoreTokens(ls, response.body, okA, okR),
              Returned(NoUser, response.body.refresh_token), NoRequest, "idle")
             EXCEPT !.accepted = Accepted(response.body, okA, okR),
                    !.got = TokensOf(response.body)]

\* refreshToken, from the settling of fetch to its end (auth.ts:219-249)
refreshTokenSettled(ls, response, okA, okR) ==
    IF response.kind = "rejected"
    THEN refreshTokenCatch(ls, [NoError EXCEPT !.name = "TypeError",
                                               !.message = <<"Failed to fetch">>])
    ELSE IF ~Ok(response)
    THEN LET errorData == IF response.body.parse = "object" THEN response.body
                          ELSE [NoBody EXCEPT !.parse = "object"]
         IN refreshTokenCatch(ls,
                NewError(IF Len(errorData.errors) > 0 /\ errorData.errors[1] # << >>
                         THEN errorData.errors[1]
                         ELSE <<"Failed to refresh token">>))
    ELSE IF response.body.parse # "object"
    THEN refreshTokenCatch(ls, [NoError EXCEPT !.name = "SyntaxError",
                                               !.message = <<"Unexpected token">>])
    ELSE LET result == response.body
             ls2 == StoreTokens(ls, result, okA, okR)
         IN IF ~result.hasData
            THEN refreshTokenCatch(ls2, TypeErrorUndefined)
            ELSE [Run(ls2, Returned(NoUser, result.access_token), NoRequest, "idle")
                     EXCEPT !.accepted = Accepted(result, okA, okR),
                            !.got = TokensOf(result)]

\* the catch block of getCurrentUser (auth.ts:273-279)
getCurrentUserCatch(ls, error) ==
    LET isApiError == InstanceOf(error, ApiError) IN
    IF isApiError.threw THEN Run(ls, Threw(isApiError.err), NoRequest, "idle")
    ELSE IF isApiError.val /\ error.status = 401
    THEN Run(clearAuthTokens(ls), Returned(NoUser, Null), NoRequest, "idle")
    ELSE Run(ls, Returned(NoUser, Null), NoRequest, "idle")

\* getCurrentUser without its `if (!token) return null`
getCurrentUserCallUnguarded(e, ls) ==
    LET d == apiClientDispatch(e, ls, "/users/me", "GET", NoRequestBody) IN
    IF d.threw THEN Run(ls, Returned(NoUser, Null), NoRequest, "idle")
    ELSE Run(ls, Pending, d.req, "awaitUser")

\* getCurrentUser, from the call to the dispatch of GET /users/me (auth.ts:255-263)
getCurrentUserCall(e, ls) ==
    LET token == getAuthToken(ls) IN
    IF token = Null THEN Run(ls, Returned(NoUser, Null), NoRequest, "idle")
    ELSE LET d == apiClientDispatch(e, ls, "/users/me", "GET", NoRequestBody) IN
         IF d.threw THEN getCurrentUserCatch(ls, d.err)
         ELSE Run(ls, Pending, d.req, "awaitUser")

\* getCurrentUser, from the answer of /users/me to its end (auth.ts:263-279)
getCurrentUserSettled(ls, response) ==
    LET r == apiClientSettle(response) IN
    IF r.threw THEN getCurrentUserCatch(ls, r.err)
    ELSE IF ~r.val.hasData THEN getCurrentUserCatch(ls, TypeErrorUndefined)
    ELSE Run(ls, Returned(ToAuthUser(r.val.user), Null), NoRequest, "idle")

(***************************************************************************)
(* Session Context (src/contexts/auth-context.tsx:19-101).  Each operator  *)
(* is what one context function does to `user` and `loading` and which     *)
(* route it pushes, given how the auth-service call it made stands;        *)
(* `starting` marks the run that begins with the context function's call.  *)
(***************************************************************************)
\* result: how the context function's own promise stands; did: the state setters
\* and router calls the run made, in the order the code makes them
Same == [user |-> user, loading |-> loading, nav |-> Null, result |-> "pending",
         did |-> << >>]

\* checkAuth with setLoading(false) at the end of its try block, not in a finally
checkAuthWithoutFinally(out) ==
    IF out.kind = "pending" THEN Same
    ELSE IF out.kind = "returned"
    THEN [user |-> out.user, loading |-> FALSE, nav |-> Null, result |-> "resolved",
          did |-> <<"setUser", "setLoading">>]
    ELSE IF out.kind = "threw"
    THEN [user |-> NoUser, loading |-> loading, nav |-> Null, result |-> "resolved",
          did |-> <<"setUser">>]
    ELSE [user |-> user, loading |-> FALSE, nav |-> Null, result |-> "resolved",
          did |-> <<"setLoading">>]

\* checkAuth, the mount effect (auth-context.tsx:25-41); out is NotCalled when
\* isAuthenticated() was false
checkAuth(out) ==
    IF out.kind = "pending" THEN Same
    ELSE IF out.kind = "returned"
    THEN [user |-> out.user, loading |-> FALSE, nav |-> Null, result |-> "resolved",
          did |-> <<"setUser", "setLoading">>]
    ELSE IF out.kind = "threw"
    THEN [user |-> NoUser, loading |-> FALSE, nav |-> Null, result |-> "resolved",
          did |-> <<"setUser", "setLoading">>]
    ELSE [user |-> user, loading |-> FALSE, nav |-> Null, result |-> "resolved",
          did |-> <<"setLoading">>]

\* login setting the user to absent when authLogin fails
loginClearingUserOnFailure(out, starting) ==
    IF out.kind = "pending"
    THEN IF starting THEN [Same EXCEPT !.loading = TRUE, !.did = <<"setLoading">>]
         ELSE Same
    ELSE IF out.kind = "returned"
    THEN [user |-> out.user, loading |-> FALSE, nav |-> "/", result |-> "resolved",
          did |-> <<"setUser", "push", "setLoading">>]
    ELSE [user |-> NoUser, loading |-> FALSE, nav |-> Null, result |-> "rejected",
          did |-> <<"setUser", "setLoading", "setLoading">>]

\* login pushing the route before it sets the user, and again after
loginPushingTwice(out, starting) ==
    IF out.kind = "pending"
    THEN IF starting THEN [Same EXCEPT !.loading = TRUE, !.did = <<"setLoading">>]
         ELSE Same
    ELSE IF out.kind = "returned"
    THEN [user |-> out.user, loading |-> FALSE, nav |-> "/", result |-> "resolved",
          did |-> <<"push", "setUser", "push", "setLoading">>]
    ELSE [user |-> user, loading |-> FALSE, nav |-> Null, result |-> "rejected",
          did |-> (IF starting THEN <<"setLoading">> ELSE << >>)
                  \o <<"setLoading", "setLoading">>]

\* login leaving a user that is present in place when authLogin returns
loginKeepingPresentUser(out, starting) ==
    IF out.kind = "pending"
    THEN IF starting THEN [Same EXCEPT !.loading = TRUE, !.did = <<"setLoading">>]
         ELSE Same
    ELSE IF out.kind = "returned"
    THEN [user |-> IF user = NoUser THEN out.user ELSE user, loading |-> FALSE,
          nav |-> "/", result |-> "resolved", did |-> <<"setUser", "push", "setLoading">>]
    ELSE [user |-> user, loading |-> FALSE, nav |-> Null, result |-> "rejected",
          did |-> (IF starting THEN <<"setLoading">> ELSE << >>)
                  \o <<"setLoading", "setLoading">>]

\* login and register (auth-context.tsx:43-71): the same code around authLogin
\* and authRegister
login(out, starting) ==
    IF out.kind = "pending"
    THEN IF starting THEN [Same EXCEPT !.loading = TRUE, !.did = <<"setLoading">>]
         ELSE Same
    ELSE IF out.kind = "returned"
    THEN [user |-> out.user, loading |-> FALSE, nav |-> "/", result |-> "resolved",
          did |-> <<"setUser", "push", "setLoading">>]
    ELSE [user |-> user, loading |-> FALSE, nav |-> Null, result |-> "rejected",
          did |-> (IF starting THEN <<"setLoading">> ELSE << >>)
                  \o <<"setLoading", "setLoading">>]

\* logout also resetting the loading flag
logoutResettingLoading ==
    [user |-> NoUser, loading |-> FALSE, nav |-> "/login", result |-> "resolved",
     did |-> <<"setUser", "setLoading", "push">>]

\* logout (auth-context.tsx:73-78), after authLogout
logout ==
    [user |-> NoUser, loading |-> loading, nav |-> "/login", result |-> "resolved",
     did |-> <<"setUser", "push">>]

\* refreshUser without the setUser(null) of its catch block
refreshUserKeepingUserOnError(out) ==
    IF out.kind = "pending" THEN Same
    ELSE IF out.kind = "returned"
    THEN [Same EXCEPT !.user = out.user, !.result = "resolved", !.did = <<"setUser">>]
    ELSE [Same EXCEPT !.result = "resolved"]

\* refreshUser (auth-context.tsx:80-88)
refreshUser(out) ==
    IF out.kind = "pending" THEN Same
    ELSE [Same EXCEPT !.user = IF out.kind = "returned" THEN out.user ELSE NoUser,
                      !.result = "resolved", !.did = <<"setUser">>]

AuthProvider(ctx, out, starting) ==
    CASE ctx = "checkAuth" -> checkAuth(out)
      [] ctx \in {"login", "register"} -> login(out, starting)
      [] ctx = "logout" -> logout
      [] ctx = "refreshUser" -> refreshUser(out)
      [] ctx \in {"direct", "app"} -> [Same EXCEPT !.result = Null]

(***************************************************************************)
(* Steps.                                                                  *)
(***************************************************************************)
\* a call that was in flight when the context's logout ran
Outlived(c) == [c EXCEPT !.stale = TRUE]

\* the effect of run r of function op, made by call c on behalf of ctx; history:
\* the step keeps the history values `cred` and `stale` of the calls in flight
Commit(c, op, ctx, step, resp, r, starting, history) ==
    LET cx == AuthProvider(ctx, r.out, starting)
        saw == IF ctx \notin {"login", "register"} THEN NoUser
               ELSE IF starting THEN user ELSE c.saw
    IN
    /\ localStorage' = r.ls
    /\ calls' = LET others == IF c.pc = "idle" THEN calls ELSE calls (-) SetToBag({c})
                 IN (IF history /\ ctx = "logout" THEN BagOfAll(Outlived, others)
                     ELSE others)
                    (+) (IF r.out.kind # "pending" THEN EmptyBag
                         ELSE SetToBag({[op |-> op, ctx |-> ctx, pc |-> r.pc,
                                         cred |-> IF r.pc = "awaitCreate"
                                                     \/ (history /\ r.pc = "awaitLogin")
                                                  THEN c.cred ELSE NoCredentials,
                                         created |-> r.created,
                                         got |-> IF r.pc = "awaitMe" THEN r.got
                                                 ELSE NoTokens,
                                         saw |-> saw, stale |-> c.stale]}))
    /\ user' = cx.user
    /\ loading' = cx.loading
    /\ event' = [op |-> op, ctx |-> ctx, step |-> step, req |-> r.req, resp |-> resp,
                 out |-> r.out, nav |-> cx.nav, before |-> localStorage,
                 accepted |-> r.accepted, got |-> r.got, created |-> r.created,
                 result |-> cx.result, did |-> cx.did,
                 was |-> [user |-> user, loading |-> loading], saw |-> saw,
                 stale |-> c.stale]
    /\ UNCHANGED env

\* a call is made: it ends at once, or it suspends, which at most MaxCalls calls do
Call(op, ctx, cred, r) ==
    /\ event = NoEvent
    /\ r.out.kind = "pending"
          => BagCardinality(calls) < (IF ctx = "direct" THEN MaxCalls ELSE MaxSessionCalls)
    /\ Commit([NoCall EXCEPT !.cred = cred], op, ctx, "call", NoResponse, r, TRUE, FALSE)
    /\ UNCHANGED mounted

\* AuthProvider mounts: checkAuth runs, calling getCurrentUser when a token is stored
Mount ==
    /\ event = NoEvent
    /\ ~mounted
    /\ mounted' = TRUE
    /\ Commit(NoCall, IF isAuthenticated(localStorage) THEN "getCurrentUser" ELSE Null,
              "checkAuth", "call", NoResponse,
              IF isAuthenticated(localStorage) THEN getCurrentUserCall(env, localStorage)
              ELSE Run(localStorage, NotCalled, NoRequest, "idle"),
              TRUE, FALSE)

LoginCall(ctx, credentials) ==
    Call("login", ctx, credentials, authLoginCall(env, localStorage, credentials))

RegisterCall(ctx, credentials) ==
    Call("register", ctx, credentials, authRegisterCall(env, localStorage, credentials))

LogoutCall(ctx) == Call("logout", ctx, NoCredentials, authLogout(localStorage))

RefreshTokenCall ==
    Call("refreshToken", "direct", NoCredentials, refreshTokenCall(env, localStorage))

GetCurrentUserCall(ctx) ==
    Call("getCurrentUser", ctx, NoCredentials, getCurrentUserCall(env, localStorage))

\* the answer a suspended call awaits arrives and the call runs on
Resume(c, pc, step, resp, r) ==
    /\ event = NoEvent
    /\ c.pc = pc
    /\ Commit(c, c.op, c.ctx, step, resp, r, FALSE, FALSE)
    /\ UNCHANGED mounted

LoginTokens(c, resp, okA, okR) ==
    Resume(c, "awaitLogin", "tokens", resp,
           authLoginTokens(env, localStorage, resp, okA, okR))

LoginUser(c, resp) ==
    Resume(c, "awaitMe", "user", resp, authLoginUser(localStorage, c.got, resp))

RegisterCreated(c, resp) ==
    Resume(c, "awaitCreate", "created", resp,
           authRegisterCreated(env, localStorage, c.cred, resp))

RegisterTokens(c, resp, okA, okR) ==
    Resume(c, "awaitRegisterLogin", "tokens", resp,
           authRegisterTokens(localStorage, c.created, resp, okA, okR))

RefreshSettled(c, resp, okA, okR) ==
    Resume(c, "awaitRefresh", "settled", resp,
           refreshTokenSettled(localStorage, resp, okA, okR))

CurrentUserSettled(c, resp) ==
    Resume(c, "awaitUser", "settled", resp, getCurrentUserSettled(localStorage, resp))

\* the tab is reloaded: every pending operation is dropped, the provider's state is
\* rebuilt, localStorage persists
Reload ==
    /\ event = NoEvent
    /\ mounted
    /\ mounted' = FALSE
    /\ calls' = EmptyBag
    /\ user' = NoUser
    /\ loading' = TRUE
    /\ event' = [NoEvent EXCEPT !.step = "reload", !.before = localStorage,
                                !.was = [user |-> user, loading |-> loading]]
    /\ UNCHANGED <<env, localStorage>>

\* The label of a step is observed and cleared before the next step is taken: the
\* steps that follow do not depend on it, and the states that differ only in the
\* label then share their successors.
Observe ==
    /\ event # NoEvent
    /\ event' = NoEvent
    /\ UNCHANGED <<env, localStorage, calls, user, loading, mounted>>

\* a storage write is refused only where one is attempted
Writes(resp) == IF resp \in TokenResponses THEN BOOLEAN ELSE {TRUE}

(***************************************************************************)
(* The auth service under any callers: every exported function may be      *)
(* called at any time, at most MaxCalls calls are suspended at once, and    *)
(* the CMS, the network and the storage answer as they like.               *)
(***************************************************************************)
Next ==
    \/ \E cr \in Credentials : LoginCall("direct", cr)
    \/ \E cr \in Credentials : RegisterCall("direct", cr)
    \/ LogoutCall("direct")
    \/ RefreshTokenCall
    \/ GetCurrentUserCall("direct")
    \/ \E c \in Suspended, resp \in AuthAnswers :
          \E okA \in Writes(resp), okR \in Writes(resp) : LoginTokens(c, resp, okA, okR)
    \/ \E c \in Suspended, resp \in UserAnswers : LoginUser(c, resp)
    \/ \E c \in Suspended, resp \in UserAnswers : RegisterCreated(c, resp)
    \/ \E c \in Suspended, resp \in AuthAnswers :
          \E okA \in Writes(resp), okR \in Writes(resp) : RegisterTokens(c, resp, okA, okR)
    \/ \E c \in Suspended, resp \in RefreshAnswers :
          \E okA \in Writes(resp), okR \in Writes(resp) : RefreshSettled(c, resp, okA, okR)
    \/ \E c \in Suspended, resp \in CurrentUserAnswers : CurrentUserSettled(c, resp)
    \/ Observe

Spec == Init /\ [][Next]_vars

(***************************************************************************)
(* The session: the provider mounts, the UI calls the context's functions  *)
(* while it is mounted, application code may call refreshToken, the tab    *)
(* may be reloaded.                                                        *)
(***************************************************************************)
SessionLogin(credentials) == mounted /\ LoginCall("login", credentials)
SessionRegister(credentials) == mounted /\ RegisterCall("register", credentials)
SessionLogout == mounted /\ LogoutCall("logout")
SessionRefreshUser == mounted /\ GetCurrentUserCall("refreshUser")

\* code of the application calls refreshToken while the session lives
AppRefreshToken ==
    Call("refreshToken", "app", NoCredentials, refreshTokenCall(env, localStorage))

\* the answer to the getCurrentUser call of checkAuth arrives
CheckAuthSettled ==
    \E c \in Suspended, resp \in SessionUserAnswers :
        c.ctx = "checkAuth" /\ CurrentUserSettled(c, resp)

SessionNext ==
    \/ Mount
    \/ \E cr \in Credentials : SessionLogin(cr)
    \/ \E cr \in Credentials : SessionRegister(cr)
    \/ SessionLogout
    \/ SessionRefreshUser
    \/ AppRefreshToken
    \/ \E c \in Suspended, resp \in SessionTokenAnswers :
          \E okA \in Writes(resp), okR \in Writes(resp) : LoginTokens(c, resp, okA, okR)
    \/ \E c \in Suspended, resp \in SessionUserAnswers : LoginUser(c, resp)
    \/ \E c \in Suspended, resp \in SessionUserAnswers : RegisterCreated(c, resp)
    \/ \E c \in Suspended, resp \in SessionTokenAnswers :
          \E okA \in Writes(resp), okR \in Writes(resp) : RegisterTokens(c, resp, okA, okR)
    \/ \E c \in Suspended, resp \in SessionTokenAnswers :
          \E okA \in Writes(resp), okR \in Writes(resp) : RefreshSettled(c, resp, okA, okR)
    \/ \E c \in Suspended, resp \in SessionUserAnswers :
          c.ctx # "checkAuth" /\ CurrentUserSettled(c, resp)
    \/ CheckAuthSettled
    \/ Reload
    \/ Observe

SessionSpec == Init /\ [][SessionNext]_vars

\* every request of checkAuth is eventually answered, and every step is observed
SessionFairSpec ==
    SessionSpec /\ SF_vars(CheckAuthSettled) /\ WF_vars(Observe)

(***************************************************************************)
(* Concurrent logins: the UI calls the context's login and logout while    *)
(* earlier logins are still in flight, at most MaxLogins operations at     *)
(* once.  The storage accepts every write, and the CMS answers a login     *)
(* with the token pair of the account whose credentials it was given and   *)
(* GET /users/me with the user of the bearer token, or with a 401.         *)
(***************************************************************************)
\* the account of a CMS user record, of a token, and of credentials
AccountOfToken(t) == IF t \in {"T1", "R1"} THEN "a@b.com" ELSE "c@d.com"
UserOfToken(t) == CHOOSE u \in CmsUsers : u.email = AccountOfToken(t)
PairFor(credentials) ==
    CHOOSE r \in TokenResponses :
        /\ r.body.access_token # Null
        /\ r.body.refresh_token # Null
        /\ AccountOfToken(r.body.access_token) = credentials.email
        /\ AccountOfToken(r.body.refresh_token) = credentials.email
UserAnswerFor(t) == CHOOSE r \in UserResponses : r.body.user = UserOfToken(t)
Denied ==
    ErrorResponse(401, StatusTextOf(401),
                  [NoBody EXCEPT !.parse = "object",
                                 !.errors = << <<"Invalid credentials">> >>])

ConcurrentLogin(credentials) ==
    /\ mounted
    /\ event = NoEvent
    /\ BagCardinality(calls) < MaxLogins
    /\ Commit([NoCall EXCEPT !.cred = credentials], "login", "login", "call", NoResponse,
              authLoginCall(env, localStorage, credentials), TRUE, TRUE)
    /\ UNCHANGED mounted

\* logout called while logins may be in flight
ConcurrentLogout ==
    /\ mounted
    /\ event = NoEvent
    /\ Commit(NoCall, "logout", "logout", "call", NoResponse, authLogout(localStorage),
              TRUE, TRUE)
    /\ UNCHANGED mounted

ConcurrentNext ==
    \/ Mount
    \/ \E cr \in Credentials : ConcurrentLogin(cr)
    \/ ConcurrentLogout
    \/ \E c \in Suspended : LoginTokens(c, PairFor(c.cred), TRUE, TRUE)
    \/ \E c \in Suspended : LoginTokens(c, Denied, TRUE, TRUE)
    \/ \E c \in Suspended : LoginUser(c, UserAnswerFor(c.got.access_token))
    \/ \E c \in Suspended : LoginUser(c, Denied)
    \/ \E c \in Suspended, resp \in UserResponses \cup {Denied} :
          CurrentUserSettled(c, resp)
    \/ Reload
    \/ Observe

ConcurrentSpec == Init /\ [][ConcurrentNext]_vars

(***************************************************************************)
(* Properties.  They read the label of the step just taken: in a state     *)
(* whose event is a step of an operation, localStorage is the store that   *)
(* step left and event.before the store it found.                          *)
(***************************************************************************)
Step(op, step) == event.op = op /\ event.step = step

\* the response is a 2xx answer carrying an access token and a refresh token
NewPair(resp) ==
    /\ resp \in TokenResponses
    /\ resp.body.access_token # Null
    /\ resp.body.refresh_token # Null

Holds(ls, tokens) ==
    /\ ls[ACCESS_KEY] = tokens.access_token
    /\ ls[REFRESH_KEY] = tokens.refresh_token

\* the response is a non-2xx answer
NonOk(resp) == resp.kind = "response" /\ ~Ok(resp)

\* login returned after /auth/login had answered with an access and a refresh token
LoginReturned ==
    /\ Step("login", "user")
    /\ event.out.kind = "returned"
    /\ event.got.access_token # Null
    /\ event.got.refresh_token # Null

\* C1 as amended: when /auth/login answers with a non-empty access and refresh
\* token and the storage accepts both writes, the store holds exactly that pair
\* when login goes on to request /users/me; login does not write the store after
\* that, so when it returns the store is as the answer of /users/me found it, and
\* the id and email of the AuthUser returned are those of the /users/me answer.
C1_LoginStoresPairAndReturnsUser ==
    /\ (Step("login", "tokens") /\ NewPair(event.resp) /\ event.accepted)
          => /\ Holds(localStorage, event.resp.body)
             /\ event.got = TokensOf(event.resp.body)
    /\ LoginReturned
          => /\ localStorage = event.before
             /\ event.out.user.id = event.resp.body.user.id
             /\ event.out.user.email = event.resp.body.user.email

C1_Witness ==
    /\ LoginReturned
    /\ Holds(localStorage, event.got)
    /\ event.out.user.id = event.resp.body.user.id

\* C1 as stated: whenever login returns after /auth/login answered with a non-empty
\* access and refresh token, the store holds exactly that pair and the AuthUser
\* returned has the id and email of the /users/me answer.
C1_Original ==
    LoginReturned
       => /\ Holds(localStorage, event.got)
          /\ event.out.user.id = event.resp.body.user.id
          /\ event.out.user.email = event.resp.body.user.email

\* C2: logout leaves the access token and the refresh token absent whatever the
\* store held, dispatches no request and always returns, and a second logout
\* leaves the store as the first one left it.
C2_LogoutClearsBoth ==
    Step("logout", "call")
       => /\ localStorage[ACCESS_KEY] = Null
          /\ localStorage[REFRESH_KEY] = Null
          /\ event.req = NoRequest
          /\ event.out.kind = "returned"
          /\ authLogout(localStorage).ls = localStorage

C2_Witness ==
    /\ Step("logout", "call")
    /\ event.before[ACCESS_KEY] = Null
    /\ event.before[REFRESH_KEY] # Null
    /\ localStorage = EmptyStorage

\* C3 as stated: when /users/me answers 401 to getCurrentUser, getCurrentUser
\* returns none and both tokens are absent from the store.
C3_Original ==
    (Step("getCurrentUser", "settled") /\ NonOk(event.resp) /\ event.resp.status = 401)
       => /\ event.out = Returned(NoUser, Null)
          /\ localStorage = EmptyStorage

\* C4: getCurrentUser called while no access token is stored returns none at once,
\* dispatches no request and leaves the store as it was.
C4_NoTokenNoRequest ==
    (Step("getCurrentUser", "call") /\ event.before[ACCESS_KEY] = Null)
       => /\ event.out = Returned(NoUser, Null)
          /\ event.req = NoRequest
          /\ localStorage = event.before

C4_Witness ==
    /\ Step("getCurrentUser", "call")
    /\ event.before[ACCESS_KEY] = Null
    /\ event.before[REFRESH_KEY] # Null
    /\ event.out.kind = "returned"

\* C5: refreshToken called while no refresh token is stored throws at once: it
\* dispatches no request and is not left waiting for an answer.
C5_NoRefreshTokenNoRequest ==
    (Step("refreshToken", "call") /\ event.before[REFRESH_KEY] = Null)
       => /\ event.out.kind = "threw"
          /\ event.req = NoRequest

C5_Witness ==
    /\ Step("refreshToken", "call")
    /\ event.before[REFRESH_KEY] = Null
    /\ event.before[ACCESS_KEY] # Null
    /\ event.out.kind = "threw"

\* refreshToken, called with a refresh token stored, fails: the CMS URL is not
\* configured, the fetch rejects, the answer is not 2xx, or it is a 2xx answer that
\* is not a JSON object with a `data` member
RefreshFails ==
    \/ /\ Step("refreshToken", "call")
       /\ event.before[REFRESH_KEY] # Null
       /\ ~env.NEXT_PUBLIC_DIRECTUS_URL
    \/ /\ Step("refreshToken", "settled")
       /\ \/ event.resp.kind = "rejected"
          \/ NonOk(event.resp)
          \/ event.resp.body.parse # "object"
          \/ ~event.resp.body.hasData

\* C6: whenever refreshToken, called with a refresh token stored, fails, it throws
\* an error (it returns no value) and both tokens are absent from the store when
\* it does so.
C6_RefreshFailureClearsBoth ==
    RefreshFails
       => /\ event.out.kind = "threw"
          /\ event.out.err.name # Null
          /\ localStorage = EmptyStorage

C6_Witness ==
    /\ Step("refreshToken", "settled")
    /\ NonOk(event.resp)
    /\ event.before[ACCESS_KEY] # Null
    /\ event.before[REFRESH_KEY] # Null
    /\ event.out.kind = "threw"
    /\ localStorage = EmptyStorage

\* the request of refreshToken carries the stored refresh token in its body, and
\* nothing else, and no Authorization header
RefreshRequest ==
    (Step("refreshToken", "call") /\ event.out.kind = "pending")
       => /\ event.req.method = "POST"
          /\ event.req.body = [NoRequestBody EXCEPT !.refresh_token = event.before[REFRESH_KEY]]
          /\ event.req.body.refresh_token # Null
          /\ event.req.Authorization = << >>

\* C7 as amended: when /auth/refresh answers 2xx with a new access and refresh
\* token, refreshToken returns the new access token, and the store holds the new
\* pair provided the storage accepts both writes; the request carries the stored
\* refresh token in its body and no Authorization header.
C7_RefreshStoresNewPair ==
    /\ RefreshRequest
    /\ (Step("refreshToken", "settled") /\ NewPair(event.resp))
          => /\ event.out = Returned(NoUser, event.resp.body.access_token)
             /\ event.accepted => Holds(localStorage, event.resp.body)

C7_Witness ==
    /\ Step("refreshToken", "settled")
    /\ NewPair(event.resp)
    /\ event.accepted
    /\ event.before[ACCESS_KEY] \notin {Null, event.resp.body.access_token}
    /\ event.before[REFRESH_KEY] \notin {Null, event.resp.body.refresh_token}
    /\ Holds(localStorage, event.resp.body)

\* C7 as stated: when /auth/refresh answers 2xx with a new access and refresh
\* token, the store holds the new pair afterwards and refreshToken returns the new
\* access token; the request carries the refresh token and no Authorization header.
C7_Original ==
    /\ RefreshRequest
    /\ (Step("refreshToken", "settled") /\ NewPair(event.resp))
          => /\ event.out = Returned(NoUser, event.resp.body.access_token)
             /\ Holds(localStorage, event.resp.body)

\* a step of login or register consumed a non-2xx answer
LoginOrRegisterFailed ==
    /\ event.op \in {"login", "register"}
    /\ event.step \in {"tokens", "user", "created"}
    /\ NonOk(event.resp)

\* C8 as stated: when login or register fails on a non-2xx answer whose body has a
\* non-empty errors array, the error thrown has the message of the first entry of
\* that array, whatever the status.
C8_Original ==
    (LoginOrRegisterFailed /\ event.resp.body.parse = "object"
                           /\ Len(event.resp.body.errors) > 0)
       => /\ event.out.kind = "threw"
          /\ event.out.err.message = event.resp.body.errors[1]

\* the message the status alone stands for
MessageOfStatus(status, statusText) ==
    CASE status = 401 -> <<"Invalid email or password">>
      [] status = 403 -> <<"Access forbidden">>
      [] status = 404 -> <<"Endpoint not found">>
      [] status = 422 -> <<"Validation error. Please check your input.">>
      [] status = 500 -> <<"Server error. Please try again later.">>
      [] OTHER -> statusText

\* C9 as stated: when login fails on a non-2xx answer whose body has neither an
\* errors array nor a message field, the error thrown has the message of the status
\* (401, 403, 404, 422, 500), and for any other status the raw status text.
C9_Original ==
    (LoginOrRegisterFailed /\ event.op = "login"
                           /\ event.resp.body.parse = "object"
                           /\ event.resp.body.errors = << >>
                           /\ event.resp.body.message = << >>)
       => /\ event.out.kind = "threw"
          /\ event.out.err.message = MessageOfStatus(event.resp.status,
                                                     event.resp.statusText)

\* C10 as stated: when the request of getCurrentUser fails otherwise than by a 401
\* answer, getCurrentUser returns none and the store is left as it was.
C10_Original ==
    (/\ Step("getCurrentUser", "settled")
     /\ \/ event.resp.kind = "rejected"
        \/ NonOk(event.resp) /\ event.resp.status # 401)
       => /\ event.out = Returned(NoUser, Null)
          /\ localStorage = event.before

\* the endpoint and the method of the request a step dispatched
Endpoint(req) == IF req = NoRequest THEN Null ELSE req.url[Len(req.url)]

Dispatched(req, method, endpoint) ==
    req # NoRequest /\ req.method = method /\ Endpoint(req) = endpoint

\* register dispatches POST /users first, POST /auth/login only on a 2xx answer of
\* /users, and nothing after the answer of /auth/login
RegisterOrder ==
    /\ Step("register", "call")
          => \/ event.out.kind = "pending" /\ Dispatched(event.req, "POST", "/users")
             \/ event.out.kind = "threw" /\ event.req = NoRequest
    /\ Step("register", "created")
          => \/ /\ event.out.kind = "pending"
                /\ Ok(event.resp)
                /\ Dispatched(event.req, "POST", "/auth/login")
             \/ event.out.kind = "threw" /\ event.req = NoRequest
    /\ (Step("register", "created") /\ (event.resp.kind = "rejected" \/ NonOk(event.resp)))
          => event.out.kind = "threw"
    /\ Step("register", "tokens")
          => /\ event.out.kind \in {"returned", "threw"}
             /\ event.req = NoRequest
    /\ (Step("register", "tokens") /\ (event.resp.kind = "rejected" \/ NonOk(event.resp)))
          => event.out.kind = "threw" /\ event.out.user = NoUser

\* register returned after /auth/login had answered with an access and a refresh
\* token
RegisterReturned ==
    /\ Step("register", "tokens")
    /\ event.out.kind = "returned"
    /\ NewPair(event.resp)

\* C11 as amended: register dispatches POST /users first and POST /auth/login only
\* after /users answered 2xx; when it returns, the AuthUser is built from the
\* answer of /users, no GET /users/me was dispatched, and the store holds the
\* token pair of the login answer provided the storage accepted both writes; when
\* either request fails register throws and returns no user.
C11_RegisterCreatesThenLogsIn ==
    /\ RegisterOrder
    /\ RegisterReturned
          => /\ event.out.user = ToAuthUser(event.created)
             /\ event.created \in CmsUsers
             /\ event.accepted => Holds(localStorage, event.resp.body)

C11_Witness ==
    /\ RegisterReturned
    /\ event.accepted
    /\ event.before # EmptyStorage
    /\ ~Holds(event.before, event.resp.body)
    /\ Holds(localStorage, event.resp.body)
    /\ event.out.user.id = event.created.id

\* C11 as stated: the same, the store holding the token pair of the login answer
\* whenever register returns.
C11_Original ==
    /\ RegisterOrder
    /\ RegisterReturned
          => /\ event.out.user = ToAuthUser(event.created)
             /\ Holds(localStorage, event.resp.body)

\* the step is a run of the context function ctx
Context(ctx) == event.ctx = ctx /\ event.step # "init"

\* the provider has just mounted
Mounted == Context("checkAuth") /\ event.step = "call"

\* what checkAuth does in each of its runs: with no access token stored at mount it
\* dispatches nothing, leaves user absent and sets loading to false; with one it
\* requests /users/me and leaves user and loading alone while it waits; when
\* getCurrentUser ends, it sets user to the user returned, or to absent when none
\* was returned or getCurrentUser threw, and only then sets loading to false
CheckAuthSteps ==
    /\ (Mounted /\ event.before[ACCESS_KEY] = Null)
          => /\ event.req = NoRequest
             /\ event.out = NotCalled
             /\ user = NoUser
             /\ ~loading
    /\ (Mounted /\ event.before[ACCESS_KEY] # Null)
          => event.op = "getCurrentUser" /\ event.out.kind # "none"
    /\ (Context("checkAuth") /\ event.out.kind = "pending")
          => /\ Dispatched(event.req, "GET", "/users/me")
             /\ user = event.was.user
             /\ loading = event.was.loading
    /\ (Context("checkAuth") /\ event.out.kind \in {"returned", "threw"})
          => /\ user = (IF event.out.kind = "returned" THEN event.out.user ELSE NoUser)
             /\ event.did = <<"setUser", "setLoading">>
             /\ ~loading

\* C12: after the session context mounts, loading becomes false on every path,
\* provided the request of checkAuth is answered (or the tab is reloaded first);
\* with no access token stored at mount nothing is requested and user stays
\* absent; with one, user is set from the outcome of getCurrentUser before loading
\* becomes false.
C12_MountEndsLoading ==
    /\ []CheckAuthSteps
    /\ Mounted ~> (~loading \/ ~mounted)

C12_Witness ==
    /\ Context("checkAuth")
    /\ event.step = "settled"
    /\ event.out.kind = "returned"
    /\ user = event.out.user
    /\ user # NoUser
    /\ event.was.loading
    /\ ~loading

\* the number of times the run called f, and whether it called f before g
Times(did, f) == Cardinality({i \in DOMAIN did : did[i] = f})
CalledBefore(did, f, g) ==
    \A j \in DOMAIN did : did[j] = g => \E i \in 1..(j - 1) : did[i] = f

\* a run of the context's login or register in which the service call ended
LoginDone(kind) ==
    /\ event.ctx \in {"login", "register"}
    /\ event.step # "init"
    /\ event.out.kind = kind

\* C13: when the context's login or register succeeds, user is the AuthUser the
\* auth service returned, the route '/' is pushed exactly once, after user was set
\* and in no earlier run of the operation, and loading is false at its end.
C13_LoginSuccessSetsUserThenNavigates ==
    /\ LoginDone("returned")
          => /\ user = event.out.user
             /\ event.nav = "/"
             /\ Times(event.did, "push") = 1
             /\ CalledBefore(event.did, "setUser", "push")
             /\ ~loading
             /\ event.result = "resolved"
    /\ (LoginDone("pending") \/ LoginDone("threw"))
          => Times(event.did, "push") = 0 /\ event.nav = Null

C13_Witness ==
    /\ LoginDone("returned")
    /\ event.op = "register"
    /\ event.was.user # NoUser
    /\ event.was.user # event.out.user
    /\ user = event.out.user
    /\ event.nav = "/"

\* C14 as amended: when the context's login or register fails, the error is
\* thrown on to the caller, loading is false, no route is pushed, and the failed
\* operation has not changed user: user is as the failure found it.
C14_LoginFailureKeepsUser ==
    LoginDone("threw")
       => /\ event.result = "rejected"
          /\ ~loading
          /\ user = event.was.user
          /\ event.nav = Null
          /\ Times(event.did, "push") = 0
          /\ Times(event.did, "setUser") = 0

C14_Witness ==
    /\ LoginDone("threw")
    /\ event.step = "tokens"
    /\ event.was.loading
    /\ user # NoUser
    /\ ~loading

\* C14 as stated: when the context's login or register fails, the error is thrown
\* on, loading is false, no route is pushed, and user has the value it had before
\* the call.
C14_Original ==
    LoginDone("threw")
       => /\ event.result = "rejected"
          /\ ~loading
          /\ user = event.saw
          /\ event.nav = Null

\* C15: right after the context's logout returns, both tokens are absent from the
\* store, user is absent, the route '/login' has been pushed, no request was
\* dispatched, and loading is as it was.
C15_SessionLogout ==
    Context("logout")
       => /\ localStorage = EmptyStorage
          /\ user = NoUser
          /\ event.nav = "/login"
          /\ Times(event.did, "push") = 1
          /\ event.req = NoRequest
          /\ event.result = "resolved"
          /\ loading = event.was.loading

C15_Witness ==
    /\ Context("logout")
    /\ event.before[ACCESS_KEY] # Null
    /\ event.before[REFRESH_KEY] # Null
    /\ event.was.user # NoUser
    /\ event.was.loading
    /\ loading
    /\ user = NoUser

\* the re-fetch of refreshUser failed: no access token was stored when it was
\* called, or its request was answered by a 401, by another non-2xx status, or not
\* at all
RefetchFailed ==
    /\ Context("refreshUser")
    /\ \/ event.step = "call" /\ event.before[ACCESS_KEY] = Null
       \/ event.step = "settled" /\ (event.resp.kind = "rejected" \/ NonOk(event.resp))

\* C16: no run of refreshUser changes loading or pushes a route, and its promise
\* never rejects; when it ends, user is the user getCurrentUser returned, and user
\* is absent whenever the re-fetch failed.
C16_RefreshUserFrame ==
    /\ Context("refreshUser")
          => /\ loading = event.was.loading
             /\ event.nav = Null
             /\ Times(event.did, "push") = 0
             /\ event.result \in {"pending", "resolved"}
             /\ event.result = "pending" <=> event.out.kind = "pending"
             /\ event.out.kind = "pending" => user = event.was.user
             /\ event.out.kind = "returned" => user = event.out.user
             /\ event.out.kind = "threw" => user = NoUser
    /\ RefetchFailed => user = NoUser /\ event.result = "resolved"

C16_Witness ==
    /\ RefetchFailed
    /\ event.step = "settled"
    /\ NonOk(event.resp)
    /\ event.was.user # NoUser
    /\ user = NoUser

\* the step dispatched a request through apiClient: every request of the auth
\* service but the one of refreshToken, which calls fetch itself
ApiClientRequest == event.req # NoRequest /\ event.op # "refreshToken"

\* C17: every request dispatched through apiClient carries `Authorization: Bearer t`
\* exactly when the store holds the access token t at the moment of the dispatch,
\* and no Authorization header when the store holds no access token.  No caller in
\* the program supplies an Authorization header of its own.
C17_BearerOfStoredToken ==
    ApiClientRequest
       => event.req.Authorization
             = (IF localStorage[ACCESS_KEY] # Null
                THEN <<"Bearer ", localStorage[ACCESS_KEY]>> ELSE << >>)

\* login replaced the stored access token and its GET /users/me carries the new one
C17_Witness ==
    /\ Step("login", "tokens")
    /\ ApiClientRequest
    /\ event.before[ACCESS_KEY] = "T1"
    /\ event.before[REFRESH_KEY] = "R2"
    /\ localStorage[ACCESS_KEY] = "T2"
    /\ event.req.Authorization = <<"Bearer ", "T2">>

\* the step consumed the answer to a request dispatched through apiClient
ApiClientAnswered == event.resp # NoResponse /\ event.op # "refreshToken"

\* the three outcomes of an apiClient request: a parsed value, an error carrying
\* the status, the status text and the parsed body of the response, and an error
\* without status
ParsedValue(r) == ~r.threw
ApiErrorOf(r, response) ==
    /\ r.threw
    /\ r.err.hasStatus
    /\ r.err.status = response.status
    /\ r.err.statusText = response.statusText
    /\ r.err.data = response.body
NetworkError(r) == r.threw /\ ~r.err.hasStatus

\* C18: every apiClient request ends in exactly one of three outcomes: a parsed
\* value, only for a 2xx response; an error carrying the status, status text and
\* parsed body, for every non-2xx response; an error without status, for every
\* failure of the dispatch itself.
C18_Original ==
    ApiClientAnswered
       => LET r == apiClientSettle(event.resp) IN
          /\ ParsedValue(r) \/ ApiErrorOf(r, event.resp) \/ NetworkError(r)
          /\ ParsedValue(r) => event.resp.kind = "response" /\ Ok(event.resp)
          /\ (event.resp.kind = "response" /\ ~Ok(event.resp)) => ApiErrorOf(r, event.resp)
          /\ event.resp.kind = "rejected" => NetworkError(r)

\* both tokens are present in the store, or both are absent
Balanced(ls) == (ls[ACCESS_KEY] # Null) <=> (ls[REFRESH_KEY] # Null)

\* the response is a 2xx token answer carrying exactly one of the two tokens
HalfPair(resp) ==
    /\ resp \in TokenResponses
    /\ (resp.body.access_token # Null) # (resp.body.refresh_token # Null)

\* C19 as stated: in every state reachable from the empty store by login, register,
\* refreshToken, logout and getCurrentUser in any interleaving, the access token
\* is present if and only if the refresh token is present.
C19_Original == Balanced(localStorage)

\* C19, amended: every run of login, register, refreshToken, logout and
\* getCurrentUser that finds both tokens present or both absent leaves them so,
\* provided the store accepts the writes of that run and the answer it consumes
\* does not carry exactly one of the two tokens.
C19_RunsKeepTokensPaired ==
    (/\ event # NoEvent
     /\ Balanced(event.before)
     /\ event.accepted
     /\ ~HalfPair(event.resp))
       => Balanced(localStorage)

\* refreshToken stored a new pair while a login was waiting for its answer
C19_Witness ==
    /\ Step("refreshToken", "settled")
    /\ NewPair(event.resp)
    /\ event.accepted
    /\ Balanced(event.before)
    /\ event.before[ACCESS_KEY] # localStorage[ACCESS_KEY]
    /\ event.before[REFRESH_KEY] # localStorage[REFRESH_KEY]
    /\ localStorage[ACCESS_KEY] # Null
    /\ localStorage[REFRESH_KEY] # Null
    /\ \E c \in Suspended : c.op = "login"

\* a call of refreshToken ended by throwing
RefreshTokenFailed == event.op = "refreshToken" /\ event.out.kind = "threw"

\* the request of getCurrentUser, which is only dispatched with an access token
\* stored and so carries it, was answered with a 401
Unauthorized ==
    /\ event.op = "getCurrentUser"
    /\ event.step = "settled"
    /\ NonOk(event.resp)
    /\ event.resp.status = 401

\* C20: the session's user is absent after each of: logout, a failing refreshToken,
\* and a 401 answer to an authenticated request dispatched through apiClient.
C20_Original ==
    /\ Context("logout") => user = NoUser
    /\ RefreshTokenFailed => user = NoUser
    /\ Unauthorized => user = NoUser

\* C21: every session error clears the tokens: after refreshToken has failed because
\* no refresh token is stored, no access token is stored either.
C21_Original ==
    (/\ Step("refreshToken", "call")
     /\ event.before[REFRESH_KEY] = Null
     /\ event.out.kind = "threw")
       => localStorage[ACCESS_KEY] = Null

\* a call of login or register ended by throwing, at any of its steps
LoginOrRegisterThrew ==
    /\ event.op \in {"login", "register"}
    /\ event.out.kind = "threw"

\* C23: tokens are written only by a login or register that succeeds: when login or
\* register fails, at any step, the store is as it was before the call.  Read on
\* the failing run: it has written nothing, and no token that the call received
\* from /auth/login in an earlier run is in the store.
C23_Original ==
    LoginOrRegisterThrew
       => /\ localStorage = event.before
          /\ event.got.access_token # Null
                => localStorage[ACCESS_KEY] # event.got.access_token
          /\ event.got.refresh_token # Null
                => localStorage[REFRESH_KEY] # event.got.refresh_token

\* login consumed an /auth/login answer that carries an access token
LoginGotAccessToken ==
    /\ Step("login", "tokens")
    /\ event.resp \in TokenResponses
    /\ event.resp.body.access_token # Null

\* C24 as stated: within a login whose /auth/login answer carries an access token,
\* the GET /users/me that follows carries that token as its bearer, under every
\* interleaving with other calls.
C24_Original ==
    LoginGotAccessToken
       => /\ Dispatched(event.req, "GET", "/users/me")
          /\ event.req.Authorization = <<"Bearer ", event.resp.body.access_token>>

\* C24, amended: the same, provided the storage accepts the token writes of that
\* login; and the user a login returns is the user of the answer to that request.
C24_LoginFetchesUserWithItsToken ==
    /\ (LoginGotAccessToken /\ event.accepted)
          => /\ Dispatched(event.req, "GET", "/users/me")
             /\ event.req.Authorization = <<"Bearer ", event.resp.body.access_token>>
             /\ event.out.kind = "pending"
    /\ (Step("login", "user") /\ event.out.kind = "returned")
          => /\ event.resp \in UserResponses
             /\ event.out.user = ToAuthUser(event.resp.body.user)

\* a login stores T2 over the T1 another call had stored and requests /users/me
\* with T2 while another login is waiting for its own /users/me
C24_Witness ==
    /\ LoginGotAccessToken
    /\ event.accepted
    /\ event.before[ACCESS_KEY] = "T1"
    /\ event.resp.body.access_token = "T2"
    /\ event.req.Authorization = <<"Bearer ", "T2">>
    /\ \E c \in Suspended : c.op = "login" /\ c.pc = "awaitMe" /\ c.got.access_token = "T1"

\* the step was made by an operation of the context that was in flight when the
\* context's logout ran
OutlivedLogout == event.step # "init" /\ event.stale

\* C25: once logout has run, no operation that was in flight at that moment (mount
\* check, login, register, refreshUser) sets user to a user or pushes '/'.
C25_Original ==
    OutlivedLogout
       => /\ Times(event.did, "setUser") > 0 => user = NoUser
          /\ event.nav # "/"

\* C22: logins are not serialized and the last write wins.  Whatever other logins
\* are in flight, a login that processes its /auth/login answer leaves its own
\* token pair in the store, and a login that completes leaves its own user in the
\* context and the store untouched; no other run of a login writes either.  So
\* the pair stored at the end is that of the login whose /auth/login answer was
\* processed last, and the user that of the login that completed last.
C22_LastWriteWins ==
    Context("login")
       => /\ (event.step = "tokens" /\ NewPair(event.resp))
                => /\ Holds(localStorage, event.resp.body)
                   /\ user = event.was.user
          /\ (event.step = "user" /\ event.out.kind = "returned")
                => /\ user = event.out.user
                   /\ localStorage = event.before
          /\ event.out.kind = "pending" => user = event.was.user
          /\ event.step # "tokens" => localStorage = event.before

\* two logins that both succeeded have ended, none is in flight: the store holds
\* the tokens of c@d.com, and the user is a@b.com, set by the login that received
\* the tokens of a@b.com and completed after the login of c@d.com
C22_Witness ==
    /\ Context("login")
    /\ event.step = "user"
    /\ event.out.kind = "returned"
    /\ calls = EmptyBag
    /\ ~event.stale
    /\ AccountOfToken(event.got.access_token) = "a@b.com"
    /\ user.email = "a@b.com"
    /\ event.was.user.email = "c@d.com"
    /\ localStorage[ACCESS_KEY] # Null /\ localStorage[REFRESH_KEY] # Null
    /\ AccountOfToken(localStorage[ACCESS_KEY]) = "c@d.com"
    /\ AccountOfToken(localStorage[REFRESH_KEY]) = "c@d.com"

\* the mount check or a login or register of the context is in flight
InFlight == \E c \in Suspended : c.ctx \in {"checkAuth", "login", "register"}

\* C26: loading is true in every state in which the mount check or a login or
\* register of the context is in flight.
C26_Original == InFlight => loading

\* no operation is in flight and no step is being observed
Quiescent == mounted /\ calls = EmptyBag

\* C27: in every quiescent state reached through mount, login, register, logout and
\* refreshUser, the context's isAuthenticated (user present) implies the auth
\* service's isAuthenticated (an access token is stored).
C27_Original == (Quiescent /\ user # NoUser) => isAuthenticated(localStorage)

=============================================================================
